---- MODULE Spec2Model ----
(***************************************************************************)
(* A model of meld: the column-name functions (meld/colfuncs.py), the      *)
(* column classifier and the aggregator (meld/utils.py) and the loop of    *)
(* Merger.to_db_agg (meld/merge_to_db.py).                                 *)
(*                                                                         *)
(* A Python string is a sequence of symbols.  A symbol is a TLA+ string    *)
(* that stands for an indivisible piece of text ("_", " ", "Metadata").    *)
(* startswith, `in`, join, strip and split are computed on the sequences.  *)
(***************************************************************************)
EXTENDS Integers, Sequences, FiniteSets, TLC

VARIABLES
    pc,              \* position of the caller's script
    tuples,          \* colfuncs: header tuples of a multi-indexed frame, one per column
    sep,             \* colfuncs: the separator
    columns,         \* colfuncs: dataframe.columns of the single-header frame
    inflated,        \* colfuncs: what inflate_cols returned
    call,            \* the arguments of the call: [data, on, method, metadata_string, prefix]
    out,             \* aggregate: what the call returned or raised
    f_cols,          \* what get_featuredata returned
    m_cols,          \* what get_metadata returned
    engine,          \* Merger: whether create_db has set self.engine and self.db_handle
    file_paths,      \* Merger: self.file_paths, the files found under the directory
    args,            \* Merger: the arguments of to_db_agg [select, header, by, method, prefix]
    todo,            \* Merger: the matching files the loop of to_db_agg has yet to process
    store,           \* Merger: the database table <select>_agg ([columns, rows])
    store_before,    \* history: the table as it was when the call was made
    raised,          \* Merger: the exception the call raised, "none" if none
    tmp_file,        \* Merger: the frame the loop last handed to utils.aggregate
    tmp_agg,         \* Merger: what utils.aggregate last returned or raised
    tmp_files,       \* Merger: the aggregated frames to_csv_agg has collected
    save_location    \* Merger: the csv file to_csv_agg writes ([columns, rows])

colvars == <<tuples, sep, columns, inflated>>
aggvars == <<call, out>>
clsvars == <<f_cols, m_cols>>
mrgvars == <<engine, file_paths, args, todo, store, store_before, raised,
             tmp_file, tmp_agg, tmp_files, save_location>>
vars == <<pc, colvars, aggvars, clsvars, mrgvars>>

----------------------------------------------------------------------------
(* Bounds *)

MaxFieldLen == 1     \* longest header field, in symbols
MaxCols == 3         \* most columns of a table whose layout is enumerated
MaxRows == 3         \* rows of a table whose values are enumerated
MaxFiles == 2        \* most files under the directory of a Merger

----------------------------------------------------------------------------
(* Strings *)

Chars == {"a", " ", "_"}

Whitespace == {" "}

RECURSIVE StringsUpTo(_)
StringsUpTo(n) ==
    IF n = 0 THEN {<<>>}
    ELSE LET shorter == StringsUpTo(n - 1)
         IN  shorter \cup {Append(s, c) : s \in shorter, c \in Chars}

Min(a, b) == IF a < b THEN a ELSE b

\* s[i..] for 1-based i (i may be Len(s) + 1)
Tail_(s, i) == SubSeq(s, i, Len(s))

\* str.startswith
startswith(s, p) ==
    /\ Len(p) <= Len(s)
    /\ SubSeq(s, 1, Len(p)) = p

\* first index at which p occurs in s, 0 when it does not (str.find + 1)
find(s, p) ==
    LET hits == {i \in 1..(Len(s) - Len(p) + 1) : SubSeq(s, i, i + Len(p) - 1) = p}
    IN  IF hits = {} THEN 0 ELSE CHOOSE i \in hits : \A j \in hits : i <= j

\* `p in s` for strings
contains(s, p) == find(s, p) # 0

\* str.strip(): whitespace removed at both ends
RECURSIVE lstrip(_)
lstrip(s) == IF s # <<>> /\ Head(s) \in Whitespace THEN lstrip(Tail(s)) ELSE s

RECURSIVE rstrip(_)
rstrip(s) ==
    IF s # <<>> /\ s[Len(s)] \in Whitespace THEN rstrip(SubSeq(s, 1, Len(s) - 1)) ELSE s

strip(s) == rstrip(lstrip(s))

\* sep.join(fields)
RECURSIVE join(_, _)
join(fields, sp) ==
    IF fields = <<>> THEN <<>>
    ELSE IF Len(fields) = 1 THEN fields[1]
    ELSE fields[1] \o sp \o join(Tail(fields), sp)

\* s.split(sep), sep not empty: cut at each occurrence, scanning left to right
RECURSIVE split(_, _)
split(s, sp) ==
    LET i == find(s, sp)
    IN  IF i = 0 THEN <<s>>
        ELSE <<SubSeq(s, 1, i - 1)>> \o split(Tail_(s, i + Len(sp)), sp)

----------------------------------------------------------------------------
(* meld/colfuncs.py *)

RECURSIVE MinLen(_)
MinLen(seqs) ==
    IF Len(seqs) = 1 THEN Len(seqs[1])
    ELSE Min(Len(seqs[1]), MinLen(Tail(seqs)))

\* zip(*parts): one tuple per position, as many as the shortest of parts
zip(parts) ==
    [i \in 1..MinLen(parts) |-> [c \in 1..Len(parts) |-> parts[c][i]]]

\* the transposition left out
no_transpose(levels, ncols) == levels

\* pd.DataFrame(levels).T: row c holds, level by level, the entries of column c
transpose(levels, ncols) ==
    [c \in 1..ncols |-> [i \in 1..Len(levels) |-> levels[i][c]]]

inflate_cols(cols, sp) ==
    LET header_tuples == zip([c \in 1..Len(cols) |-> split(cols[c], sp)])
    IN  [status |-> "ok", index |-> transpose(header_tuples, Len(cols))]

\* the joined names left as they are
collapse_cols_unstripped(hdr, sp) ==
    [c \in 1..Len(hdr) |-> join(hdr[c], sp)]

collapse_cols(hdr, sp) ==
    [c \in 1..Len(hdr) |-> strip(join(hdr[c], sp))]

----------------------------------------------------------------------------
(* Tables                                                                  *)
(*                                                                         *)
(* A DataFrame is [columns, dtypes, rows]: the column names in order, the  *)
(* dtype of each column ("int64" or "object") and the rows, each a tuple   *)
(* of cells aligned with columns.  A cell is a rational <<n, d>>; a cell   *)
(* read from a file is <<v, 1>> (in an object column v labels a string,    *)
(* ordered as v), and <<0, 0>> is NaN.                                     *)

NaN == <<0, 0>>

RECURSIVE GCD(_, _)
GCD(a, b) == IF b = 0 THEN a ELSE GCD(b, a % b)

Rat(n, d) == LET g == GCD(n, d) IN <<n \div g, d \div g>>

\* position of the first column called name, 0 when there is none
RECURSIVE index(_, _)
index(names, name) ==
    IF names = <<>> THEN 0
    ELSE IF Head(names) = name THEN 1
    ELSE LET i == index(Tail(names), name) IN IF i = 0 THEN 0 ELSE i + 1

isin(name, names) == index(names, name) # 0

\* positions of all columns called name, in order
positions(names, name) ==
    SelectSeq([i \in 1..Len(names) |-> i], LAMBDA i : names[i] = name)

RECURSIVE concat(_)
concat(seqs) == IF seqs = <<>> THEN <<>> ELSE Head(seqs) \o concat(Tail(seqs))

\* the group key as a list of column names: `on` is a string or a list of strings
on_list(on) == IF on.kind = "str" THEN <<on.name>> ELSE on.names

\* the key of a row: the tuple of its cells in the key columns
key_of(df, keys, row) == [k \in 1..Len(keys) |-> row[index(df.columns, keys[k])]]

\* lexicographic order on key tuples
RECURSIVE key_less(_, _)
key_less(a, b) ==
    IF a = <<>> THEN FALSE
    ELSE IF Head(a)[1] < Head(b)[1] THEN TRUE
    ELSE IF Head(a)[1] > Head(b)[1] THEN FALSE
    ELSE key_less(Tail(a), Tail(b))

RECURSIVE sort_keys(_)
sort_keys(S) ==
    IF S = {} THEN <<>>
    ELSE LET m == CHOOSE k \in S : \A j \in S : j = k \/ key_less(k, j)
         IN  <<m>> \o sort_keys(S \ {m})

RECURSIVE insert_sorted(_, _)
insert_sorted(v, s) ==
    IF s = <<>> THEN <<v>>
    ELSE IF v <= Head(s) THEN <<v>> \o s
    ELSE <<Head(s)>> \o insert_sorted(v, Tail(s))

RECURSIVE sorted(_)
sorted(s) == IF s = <<>> THEN <<>> ELSE insert_sorted(Head(s), sorted(Tail(s)))

RECURSIVE total(_)
total(s) == IF s = <<>> THEN 0 ELSE Head(s) + total(Tail(s))

\* np.mean, np.median, np.sum of a non-empty list of integers
np_mean(vals) == Rat(total(vals), Len(vals))

np_median(vals) ==
    LET s == sorted(vals)
        n == Len(s)
    IN  IF n % 2 = 1 THEN <<s[(n + 1) \div 2], 1>>
        ELSE Rat(s[n \div 2] + s[n \div 2 + 1], 2)

np_sum(vals) == <<total(vals), 1>>

----------------------------------------------------------------------------
(* meld/utils.py : the column classifier *)

\* prefix is a boolean, so `if prefix` / `elif prefix is False` covers both values
get_featuredata(data, metadata_string, prefix) ==
    IF prefix
    THEN SelectSeq(data.columns, LAMBDA i : ~startswith(i, metadata_string))
    ELSE SelectSeq(data.columns, LAMBDA i : ~contains(i, metadata_string))

\* get_metadata ignoring prefix: substring mode whatever the flag
get_metadata_substring(data, metadata_string, prefix) ==
    SelectSeq(data.columns, LAMBDA i : contains(i, metadata_string))

get_metadata(data, metadata_string, prefix) ==
    IF prefix
    THEN SelectSeq(data.columns, LAMBDA i : startswith(i, metadata_string))
    ELSE SelectSeq(data.columns, LAMBDA i : contains(i, metadata_string))

----------------------------------------------------------------------------
(* meld/utils.py : validation *)

valid_methods == {"median", "mean"}

_check_inputs(data, on, method) ==
    IF method \notin valid_methods THEN "ValueError: not a valid method"
    ELSE IF \E k \in 1..Len(on_list(on)) : ~isin(on_list(on)[k], data.columns)
    THEN "ValueError: not a column in df"
    ELSE "ok"

\* np.issubdtype(dtype, np.number)
is_number(dtype) == dtype = "int64"

\* `col not in [on]`: a column name equals `on` only when `on` is itself a string
not_in_on(col, on) == ~(on.kind = "str" /\ col = on.name)

_check_featuredata(data, on, metadata_string, prefix) ==
    LET feature_cols  == get_featuredata(data, metadata_string, prefix)
        cols_to_check == SelectSeq(feature_cols, LAMBDA col : not_in_on(col, on))
        dtype_of(col) == data.dtypes[index(data.columns, col)]
        bad_cols      == SelectSeq(cols_to_check, LAMBDA col : ~is_number(dtype_of(col)))
    IN  IF cols_to_check = <<>>
        THEN \* np.vectorize refuses an input of size 0
             [status |-> "ValueError: vectorize on size 0 inputs", bad_cols |-> <<>>]
        ELSE IF bad_cols # <<>>
        THEN [status |-> "ValueError: non-numeric column found in feature data",
              bad_cols |-> bad_cols]
        ELSE [status |-> "ok", bad_cols |-> <<>>]

----------------------------------------------------------------------------
(* meld/utils.py : aggregate, with the pandas operations it calls *)

NoTable == [columns |-> <<>>, dtypes |-> <<>>, rows |-> <<>>]

dtype_in(df, col) == df.dtypes[index(df.columns, col)]

\* integer values of column col in the rows of df whose key is k, in row order
group_values(df, keys, k, col) ==
    LET rs == SelectSeq(df.rows, LAMBDA r : key_of(df, keys, r) = k)
    IN  [i \in 1..Len(rs) |-> rs[i][index(df.columns, col)][1]]

\* the three branches of aggregate on `method`
statistic(method, vals) ==
    CASE method = "mean"   -> np_mean(vals)
      [] method = "median" -> np_median(vals)
      [] method = "sum"    -> np_sum(vals)

\* the columns groupby(...).aggregate reduces: numeric and not a key (the others
\* are dropped as nuisance columns)
reduced_cols(data, keys) ==
    SelectSeq(data.columns, LAMBDA c : ~isin(c, keys) /\ is_number(dtype_in(data, c)))

\* data.groupby(on, as_index=False).aggregate(f): one row per key, keys ascending,
\* the key columns first
groupby_aggregate(data, keys, method) ==
    LET vcols == reduced_cols(data, keys)
        gkeys == sort_keys({key_of(data, keys, data.rows[r]) : r \in 1..Len(data.rows)})
    IN  [columns |-> keys \o vcols,
         dtypes  |-> [k \in 1..Len(keys) |-> dtype_in(data, keys[k])]
                     \o [c \in 1..Len(vcols) |-> "int64"],
         rows    |-> [g \in 1..Len(gkeys) |->
                        gkeys[g] \o [c \in 1..Len(vcols) |->
                            statistic(method, group_values(data, keys, gkeys[g], vcols[c]))]]]

\* df_metadata = data[get_metadata(data)].copy(); df_metadata[on] = data[on]
metadata_frame(data, keys, metadata_string, prefix) ==
    LET meta == get_metadata(data, metadata_string, prefix)
        cols == meta \o SelectSeq(keys, LAMBDA k : ~isin(k, meta))
    IN  [columns |-> cols,
         dtypes  |-> [c \in 1..Len(cols) |-> dtype_in(data, cols[c])],
         rows    |-> [r \in 1..Len(data.rows) |->
                        [c \in 1..Len(cols) |-> data.rows[r][index(data.columns, cols[c])]]]]

\* keep_first with the last row of each key kept instead (keep="last")
RECURSIVE keep_last(_, _, _, _)
keep_last(df, keys, rows, seen) ==
    IF rows = <<>> THEN <<>>
    ELSE LET k == key_of(df, keys, rows[Len(rows)])
             front == SubSeq(rows, 1, Len(rows) - 1)
         IN  IF k \in seen THEN keep_last(df, keys, front, seen)
             ELSE keep_last(df, keys, front, seen \cup {k}) \o <<rows[Len(rows)]>>

\* df.drop_duplicates(subset=keys): the first row of each key is kept
RECURSIVE keep_first(_, _, _, _)
keep_first(df, keys, rows, seen) ==
    IF rows = <<>> THEN <<>>
    ELSE LET k == key_of(df, keys, Head(rows))
         IN  IF k \in seen THEN keep_first(df, keys, Tail(rows), seen)
             ELSE <<Head(rows)>> \o keep_first(df, keys, Tail(rows), seen \cup {k})

\* drop_duplicates left out: every row of the metadata frame is kept
drop_duplicates_none(df, keys) == df

drop_duplicates(df, keys) ==
    [df EXCEPT !.rows = keep_first(df, keys, df.rows, {})]

\* pd.merge(left, right, on=keys, how="outer", suffixes=(lsuffix, rsuffix)):
\* the left columns, then the right columns that are not keys; a column that is
\* no key and is in both frames gets its side's suffix; rows by ascending key,
\* each left row of a key with each right row of that key, NaN for a missing side
merge_outer(left, right, keys, lsuffix, rsuffix) ==
    LET rnon    == SelectSeq(right.columns, LAMBDA c : ~isin(c, keys))
        overlap(c) == ~isin(c, keys) /\ isin(c, left.columns) /\ isin(c, right.columns)
        lname(c) == IF overlap(c) THEN c \o lsuffix ELSE c
        rname(c) == IF overlap(c) THEN c \o rsuffix ELSE c
        lkeys   == {key_of(left, keys, left.rows[r]) : r \in 1..Len(left.rows)}
        rkeys   == {key_of(right, keys, right.rows[r]) : r \in 1..Len(right.rows)}
        allkeys == sort_keys(lkeys \cup rkeys)
        lrows(k) == SelectSeq(left.rows, LAMBDA r : key_of(left, keys, r) = k)
        rrows(k) == SelectSeq(right.rows, LAMBDA r : key_of(right, keys, r) = k)
        lcells(k, r) ==
            [c \in 1..Len(left.columns) |->
                IF isin(left.columns[c], keys) THEN k[index(keys, left.columns[c])]
                ELSE r[c]]
        lmissing(k) ==
            [c \in 1..Len(left.columns) |->
                IF isin(left.columns[c], keys) THEN k[index(keys, left.columns[c])]
                ELSE NaN]
        rcells(r)  == [c \in 1..Len(rnon) |-> r[index(right.columns, rnon[c])]]
        rmissing   == [c \in 1..Len(rnon) |-> NaN]
        lside(k)   == IF lrows(k) = <<>> THEN <<lmissing(k)>>
                      ELSE [i \in 1..Len(lrows(k)) |-> lcells(k, lrows(k)[i])]
        rside(k)   == IF rrows(k) = <<>> THEN <<rmissing>>
                      ELSE [i \in 1..Len(rrows(k)) |-> rcells(rrows(k)[i])]
        pairs(k)   == concat([i \in 1..Len(lside(k)) |->
                          [j \in 1..Len(rside(k)) |-> lside(k)[i] \o rside(k)[j]]])
    IN  [columns |-> [c \in 1..Len(left.columns) |-> lname(left.columns[c])]
                     \o [c \in 1..Len(rnon) |-> rname(rnon[c])],
         dtypes  |-> left.dtypes \o [c \in 1..Len(rnon) |-> dtype_in(right, rnon[c])],
         rows    |-> concat([g \in 1..Len(allkeys) |-> pairs(allkeys[g])])]

\* select_columns left out: the merged frame as merge returned it
select_columns_as_merged(df, names) == df

\* df[names]: every column called by each name, in the order of names
select_columns(df, names) ==
    LET pos == concat([n \in 1..Len(names) |-> positions(df.columns, names[n])])
    IN  [columns |-> [c \in 1..Len(pos) |-> df.columns[pos[c]]],
         dtypes  |-> [c \in 1..Len(pos) |-> df.dtypes[pos[c]]],
         rows    |-> [r \in 1..Len(df.rows) |-> [c \in 1..Len(pos) |-> df.rows[r][pos[c]]]]]

\* the suffixes the other way round: the metadata side is renamed
suffixes_swapped == << <<>>, <<"remove_me">> >>

\* suffixes=("remove_me", "")
suffixes == << <<"remove_me">>, <<>> >>

\* an exception: its message, and the column list a non-numeric error carries
Failed(status, bad_cols) == [status |-> status, table |-> NoTable, bad_cols |-> bad_cols]

\* groupby_raises: whether the installed pandas raises DataError when the frame
\* has no numeric column to reduce (pandas 0.2x does) or returns the keys alone
aggregate(data, on, method, metadata_string, prefix, groupby_raises) ==
    LET inputs   == _check_inputs(data, on, method)
        features == _check_featuredata(data, on, metadata_string, prefix)
        keys     == on_list(on)
        df_cols  == data.columns
        agg      == groupby_aggregate(data, keys, method)
        df_metadata ==
            drop_duplicates(metadata_frame(data, keys, metadata_string, prefix), keys)
        merged   == merge_outer(agg, df_metadata, keys, suffixes[1], suffixes[2])
        merged_df == select_columns(merged, df_cols)
    IN  IF inputs # "ok" THEN Failed(inputs, <<>>)
        ELSE IF features.status # "ok" THEN Failed(features.status, features.bad_cols)
        ELSE IF reduced_cols(data, keys) = <<>> /\ groupby_raises
        THEN Failed("DataError: No numeric types to aggregate", <<>>)
        ELSE IF \E n \in 1..Len(df_cols) : ~isin(df_cols[n], merged.columns)
        THEN Failed("KeyError", <<>>)
        ELSE IF Len(merged_df.columns) # Len(data.columns)
        THEN Failed("AssertionError", <<>>)
        ELSE [status |-> "ok", table |-> merged_df, bad_cols |-> <<>>]

----------------------------------------------------------------------------
(* Inputs of aggregate *)

Str(name) == [kind |-> "str", name |-> name]
List(names) == [kind |-> "list", names |-> names]

Range(q) == {q[i] : i \in 1..Len(q)}

\* all sequences of distinct elements of S of length 0..n
RECURSIVE DistinctSeqs(_, _)
DistinctSeqs(S, n) ==
    IF n = 0 THEN {<<>>}
    ELSE LET shorter == DistinctSeqs(S, n - 1)
         IN  shorter \cup UNION {{Append(q, x) : x \in S \ Range(q)} : q \in shorter}

DTypes == {"int64", "object"}

Markers == {<<"Metadata">>, <<"Mito">>}

Absent == <<"Nuclei">>     \* a column name no table has

\* the keys tried on a table: each column and an absent one as a string, each
\* column and each pair of columns (in table order) as a list
OnOptions(cols) ==
    {Str(n) : n \in Range(cols) \cup {Absent}}
    \cup {List(<<n>>) : n \in Range(cols)}
    \cup UNION {{List(<<cols[i], cols[j]>>) : j \in (i + 1)..Len(cols)} : i \in 1..Len(cols)}

\* the call is aggregate(t, on, method, metadata_string=ms, prefix=p) for some
\* arguments in the given sets
CallIn(t, ons, methods, markers, prefixes) ==
    \E o \in ons, m \in methods, ms \in markers, p \in prefixes :
        call = [data |-> t, on |-> o, method |-> m, metadata_string |-> ms, prefix |-> p]

\* Layouts: every order of 1..MaxCols of these names, every dtype per column, and
\* three rows of fixed values (column c holds 2, 1, 2 for odd c and 1, 1, 1 for even c)
WideNames ==
    {<<"Area">>, <<"Metadata", "Well">>, <<"Well", "Metadata">>,
     <<"Metadata", "Well", "remove_me">>}

WideTables(maxcols) ==
    UNION {{[columns |-> h, dtypes |-> d,
             rows |-> [r \in 1..3 |-> [c \in 1..Len(h) |-> <<((r * c) % 2) + 1, 1>>]]] :
                d \in [1..Len(h) -> DTypes]} :
           h \in DistinctSeqs(WideNames, maxcols) \ {<<>>}}

WideCall ==
    \E t \in WideTables(MaxCols) :
        CallIn(t, OnOptions(t.columns), {"median", "mode"}, Markers, BOOLEAN)

\* Values: one layout (a key, a feature, a metadata column of either dtype), MaxRows
\* rows, every assignment of these values to the cells
DeepValues == {1, 4}

DeepColumns == << <<"Image">>, <<"Area">>, <<"Metadata", "Well">> >>

DeepTables(maxrows) ==
    {[columns |-> DeepColumns, dtypes |-> <<"int64", "int64", d>>,
      rows |-> [r \in 1..maxrows |-> [c \in 1..3 |-> <<m[r][c], 1>>]]] :
        d \in DTypes, m \in [1..maxrows -> [1..3 -> DeepValues]]}

DeepCall ==
    \E t \in DeepTables(MaxRows) :
        CallIn(t,
               {Str(<<"Image">>), Str(<<"Metadata", "Well">>),
                List(<< <<"Image">>, <<"Metadata", "Well">> >>)},
               {"median", "mean", "sum"}, {<<"Metadata">>}, {FALSE})

----------------------------------------------------------------------------
(* The state machine of a caller of aggregate *)

NoOut == [status |-> "none", table |-> NoTable, bad_cols |-> <<>>]

ColIdle ==
    /\ tuples = <<>>
    /\ sep = <<>>
    /\ columns = <<>>
    /\ inflated = [status |-> "none", index |-> <<>>]

NotCalled == [done |-> FALSE, cols |-> <<>>]

NoStore == [columns |-> <<>>, rows |-> <<>>]

MrgIdle ==
    /\ engine = FALSE
    /\ file_paths = <<>>
    /\ args = [select |-> <<>>]
    /\ todo = <<>>
    /\ store = NoStore
    /\ store_before = NoStore
    /\ raised = "none"
    /\ tmp_file = NoTable
    /\ tmp_agg = NoOut
    /\ tmp_files = <<>>
    /\ save_location = NoStore

ClsIdle == f_cols = NotCalled /\ m_cols = NotCalled

Init ==
    /\ pc = "call_aggregate"
    /\ ColIdle
    /\ ClsIdle
    /\ MrgIdle
    /\ (WideCall \/ DeepCall)
    /\ out = NoOut

\* out = aggregate(data, on, method, metadata_string=..., prefix=...)
Aggregate ==
    /\ pc = "call_aggregate"
    /\ \E groupby_raises \in BOOLEAN :
        out' = aggregate(call.data, call.on, call.method, call.metadata_string,
                         call.prefix, groupby_raises)
    /\ pc' = "aggregated"
    /\ UNCHANGED <<colvars, clsvars, mrgvars, call>>

Next == Aggregate

Spec == Init /\ [][Next]_vars

\* the same caller on the tables of enumerated values alone
InitDeep ==
    /\ pc = "call_aggregate"
    /\ ColIdle
    /\ ClsIdle
    /\ MrgIdle
    /\ DeepCall
    /\ out = NoOut

SpecDeep == InitDeep /\ [][Next]_vars

----------------------------------------------------------------------------
(* The state machine of a caller of the column classifier *)

ClassifierMarkers ==
    {<<>>, <<"Metadata">>, <<"Well">>, <<"Metadata", "Well">>, <<"Well", "remove_me">>,
     <<"Mito">>}

\* frames of every layout (the classifier reads the column names alone)
ClassifierScenarios(maxcols) ==
    {[data |-> [columns |-> h, dtypes |-> [c \in 1..Len(h) |-> "int64"], rows |-> <<>>],
      metadata_string |-> ms, prefix |-> p] :
        h \in DistinctSeqs(WideNames, maxcols) \ {<<>>},
        ms \in ClassifierMarkers, p \in BOOLEAN}

InitClassifier ==
    /\ pc = "classify"
    /\ ColIdle
    /\ ClsIdle
    /\ MrgIdle
    /\ call \in ClassifierScenarios(MaxCols)
    /\ out = NoOut

\* f_cols = get_featuredata(data, metadata_string, prefix)
GetFeaturedata ==
    /\ pc = "classify"
    /\ ~f_cols.done
    /\ f_cols' = [done |-> TRUE,
                  cols |-> get_featuredata(call.data, call.metadata_string, call.prefix)]
    /\ UNCHANGED <<pc, colvars, aggvars, mrgvars, m_cols>>

\* m_cols = get_metadata(data, metadata_string, prefix)
GetMetadata ==
    /\ pc = "classify"
    /\ ~m_cols.done
    /\ m_cols' = [done |-> TRUE,
                  cols |-> get_metadata(call.data, call.metadata_string, call.prefix)]
    /\ UNCHANGED <<pc, colvars, aggvars, mrgvars, f_cols>>

NextClassifier == GetFeaturedata \/ GetMetadata

SpecClassifier == InitClassifier /\ [][NextClassifier]_vars

\* C8: for every table, marker and prefix flag both functions return, every
\* column name is in exactly one of the two results, nothing else is in them,
\* and with a marker that occurs in no column every column is a feature column
C8_Partition ==
    (f_cols.done /\ m_cols.done) =>
        /\ \A name \in Range(call.data.columns) :
              /\ isin(name, f_cols.cols) # isin(name, m_cols.cols)
              /\ Len(positions(f_cols.cols, name)) + Len(positions(m_cols.cols, name)) = 1
        /\ Range(f_cols.cols) \cup Range(m_cols.cols) = Range(call.data.columns)
        /\ (\A name \in Range(call.data.columns) : ~contains(name, call.metadata_string))
              => f_cols.cols = call.data.columns

\* both results are in, in prefix mode, for a marker that one column starts with
\* and another column only contains
C8_Witness ==
    /\ f_cols.done /\ m_cols.done
    /\ call.prefix
    /\ \E a, b \in Range(call.data.columns) :
          /\ startswith(a, call.metadata_string)
          /\ contains(b, call.metadata_string) /\ ~startswith(b, call.metadata_string)
          /\ isin(a, m_cols.cols) /\ isin(b, f_cols.cols)

----------------------------------------------------------------------------
(* The state machine of a caller of the column-name functions *)

Seps == {<<"_">>, <<" ">>, <<"_", "_">>}

\* the header tuples of a frame read with two header rows, fields of up to n symbols
HeaderTuples(n) == {<<a, b>> : a \in StringsUpTo(n), b \in StringsUpTo(n)}

\* the columns of a frame of one or two columns
OneOrTwo(S) == {<<t>> : t \in S} \cup {<<t, u>> : t \in S, u \in S}

NotInflated == [status |-> "none", index |-> <<>>]

InitColfuncs ==
    /\ sep \in Seps
    /\ inflated = NotInflated
    /\ \/ pc = "multi_index" /\ tuples \in OneOrTwo(HeaderTuples(MaxFieldLen)) /\ columns = <<>>
       \/ pc = "single_index" /\ tuples = <<>> /\ columns \in OneOrTwo(StringsUpTo(MaxFieldLen + 2))
    /\ ClsIdle
    /\ MrgIdle
    /\ call = [data |-> NoTable]
    /\ out = NoOut

\* df.columns = collapse_cols(df, sep)
CollapseCols ==
    /\ pc = "multi_index"
    /\ columns' = collapse_cols(tuples, sep)
    /\ pc' = "collapsed"
    /\ UNCHANGED <<tuples, sep, inflated, aggvars, clsvars, mrgvars>>

\* df.columns = inflate_cols(df, sep)
InflateCols ==
    /\ pc \in {"single_index", "collapsed"}
    /\ inflated' = inflate_cols(columns, sep)
    /\ pc' = IF pc = "collapsed" THEN "round_trip" ELSE "inflated"
    /\ UNCHANGED <<tuples, sep, columns, aggvars, clsvars, mrgvars>>

NextColfuncs == CollapseCols \/ InflateCols

SpecColfuncs == InitColfuncs /\ [][NextColfuncs]_vars

Inflated == pc \in {"inflated", "round_trip"}

\* the collapsed names do not all split into the same number of parts
Ragged ==
    \E c, d \in 1..Len(columns) : Len(split(columns[c], sep)) # Len(split(columns[d], sep))

\* C4: inflate_cols fails with a shape error whenever the names do not all split
\* into the same number of parts
C4_RaggedIsShapeError ==
    (Inflated /\ Ragged) => inflated.status = "ShapeError"

\* no field of any header tuple contains the separator
NoSepInFields ==
    \A c \in 1..Len(tuples) : \A i \in 1..Len(tuples[c]) : ~contains(tuples[c][i], sep)

\* C5, as claimed: when no field contains the separator, inflating the collapsed
\* names gives back every header tuple, in column order
C5_RoundTrip ==
    (pc = "round_trip" /\ NoSepInFields)
    => inflated.status = "ok" /\ inflated.index = tuples

\* a joined name that neither starts nor ends with whitespace
Unstripped(name) ==
    name = <<>> \/ (name[1] \notin Whitespace /\ name[Len(name)] \notin Whitespace)

\* C5, amended: when no field contains the separator, the separator is a single
\* character and no joined name starts or ends with whitespace, inflating the
\* collapsed names gives back every header tuple, in column order
C5_RoundTripUnstripped ==
    (/\ pc = "round_trip"
     /\ NoSepInFields
     /\ Len(sep) = 1
     /\ \A c \in 1..Len(tuples) : Unstripped(join(tuples[c], sep)))
    => inflated.status = "ok" /\ inflated.index = tuples

\* a round trip of two different header tuples joined by a whitespace separator,
\* under the amended condition
C5_Witness ==
    /\ pc = "round_trip"
    /\ NoSepInFields
    /\ Len(sep) = 1
    /\ \A c \in 1..Len(tuples) : Unstripped(join(tuples[c], sep))
    /\ Len(tuples) = 2 /\ tuples[1] # tuples[2]
    /\ sep[1] \in Whitespace
    /\ inflated.index = tuples

AllWhitespace(s) == \A i \in 1..Len(s) : s[i] \in Whitespace

\* name is what is left of joined once the whitespace at both of its ends is gone
StrippedOf(name, joined) ==
    /\ Unstripped(name)
    /\ \E i, j \in 0..Len(joined) :
          /\ i + Len(name) + j = Len(joined)
          /\ SubSeq(joined, i + 1, i + Len(name)) = name
          /\ AllWhitespace(SubSeq(joined, 1, i))
          /\ AllWhitespace(SubSeq(joined, Len(joined) - j + 1, Len(joined)))

Collapsed == pc \in {"collapsed", "round_trip"}

\* C11: collapse_cols returns one name per column, in column order, each name
\* being the column's header tuple joined with the separator and then stripped
\* of the whitespace at both ends
C11_OneStrippedNamePerColumn ==
    Collapsed
    => /\ Len(columns) = Len(tuples)
       /\ \A c \in 1..Len(tuples) : StrippedOf(columns[c], join(tuples[c], sep))

\* two columns collapsed to different names, in order, the first of which lost
\* whitespace at an end and the second of which is its joined tuple as it is
C11_Witness ==
    /\ pc = "collapsed"
    /\ Len(tuples) = 2 /\ Len(columns) = 2
    /\ columns[1] # columns[2]
    /\ columns[1] # join(tuples[1], sep)
    /\ columns[1] # <<>>
    /\ columns[2] = join(tuples[2], sep)

----------------------------------------------------------------------------
(* Properties of aggregate *)

Returned == pc = "aggregated" /\ out.status = "ok"

NonNumeric == "ValueError: non-numeric column found in feature data"

Keys == on_list(call.on)

FeatureNames == Range(get_featuredata(call.data, call.metadata_string, call.prefix))

MetadataNames == Range(get_metadata(call.data, call.metadata_string, call.prefix))

KeyExists == \A k \in 1..Len(Keys) : isin(Keys[k], call.data.columns)

\* the cell of column name in a row of the returned table
OutCell(row, name) == row[index(out.table.columns, name)]

\* the key of a row of the returned table
OutKey(row) == [k \in 1..Len(Keys) |-> OutCell(row, Keys[k])]

\* the input rows of a key, in input order
InputGroup(k) == SelectSeq(call.data.rows, LAMBDA r : key_of(call.data, Keys, r) = k)

InputKeys == {key_of(call.data, Keys, call.data.rows[r]) : r \in 1..Len(call.data.rows)}

InCell(row, name) == row[index(call.data.columns, name)]

\* C2: whenever aggregate returns a table, the table has the input's column
\* names, in the input's order (and so the same number of columns)
C2_ColumnOrderPreserved ==
    Returned => out.table.columns = call.data.columns

\* a returned table of three columns, grouped by a list of two keys in prefix
\* mode, whose first column is not a key (groupby puts the keys first)
C2_Witness ==
    /\ Returned
    /\ Len(call.data.columns) = 3
    /\ call.on.kind = "list" /\ Len(Keys) = 2
    /\ call.prefix
    /\ ~isin(call.data.columns[1], Keys)

\* C9: the returned table has one row per distinct key (tuple) of the input,
\* and every distinct key is the key of exactly one row
C9_OneRowPerKey ==
    Returned =>
        /\ Len(out.table.rows) = Cardinality(InputKeys)
        /\ \A k \in InputKeys :
              Cardinality({r \in 1..Len(out.table.rows) : OutKey(out.table.rows[r]) = k}) = 1

\* a returned table with fewer rows than the input, grouped by two columns
C9_Witness ==
    /\ Returned
    /\ Len(Keys) = 2
    /\ Cardinality(InputKeys) = 2
    /\ Len(call.data.rows) > 2

\* C10: in every row of the returned table each metadata column holds the value
\* of that column in the first input row of the row's key group
C10_MetadataFirstRow ==
    Returned =>
        \A r \in 1..Len(out.table.rows) : \A name \in MetadataNames :
            OutCell(out.table.rows[r], name)
                = InCell(InputGroup(OutKey(out.table.rows[r]))[1], name)

\* a numeric metadata column that is not a key, and a group of several rows in
\* which its first value is neither its last value nor the group's statistic
C10_Witness ==
    /\ Returned
    /\ \E name \in MetadataNames \ Range(Keys) : \E k \in InputKeys :
          LET g == InputGroup(k)
          IN  /\ is_number(dtype_in(call.data, name))
              /\ Len(g) > 1
              /\ InCell(g[1], name) # InCell(g[Len(g)], name)
              /\ InCell(g[1], name)
                   # statistic(call.method, [i \in 1..Len(g) |-> InCell(g[i], name)[1]])

\* the columns, other than the key, that are in both frames at the join step
Collisions ==
    (Range(groupby_aggregate(call.data, Keys, call.method).columns)
        \cap Range(metadata_frame(call.data, Keys, call.metadata_string, call.prefix).columns))
    \ Range(Keys)

\* the call passed both validations and the group-by, and reached pd.merge
JoinReached == pc = "aggregated" /\ out.status \in {"ok", "KeyError", "AssertionError"}

\* C1: with an existing key, feature columns beside the key, all of them
\* numeric, and a statistic in {mean, median, sum}, aggregate succeeds and every
\* feature column that is not a key holds, in every row, the statistic of that
\* column over the input rows of the row's key group
C1_StatisticPerGroup ==
    (/\ pc = "aggregated"
     /\ KeyExists
     /\ FeatureNames \ Range(Keys) # {}
     /\ \A name \in FeatureNames : is_number(dtype_in(call.data, name))
     /\ call.method \in {"mean", "median", "sum"})
    => /\ out.status = "ok"
       /\ \A r \in 1..Len(out.table.rows) : \A name \in FeatureNames \ Range(Keys) :
            LET g == InputGroup(OutKey(out.table.rows[r]))
            IN  OutCell(out.table.rows[r], name)
                  = statistic(call.method, [i \in 1..Len(g) |-> InCell(g[i], name)[1]])

\* the feature-classified columns that are no key column and are not numeric
Offenders ==
    {name \in FeatureNames \ Range(Keys) : ~is_number(dtype_in(call.data, name))}

\* C3: a call with valid arguments fails with the non-numeric-feature error
\* exactly when some feature column that is not a key column is non-numeric, and
\* the error names exactly those columns, for a string key and for a list key
C3_NonNumericExactly ==
    (pc = "aggregated" /\ _check_inputs(call.data, call.on, call.method) = "ok")
    => /\ (out.status = NonNumeric) <=> (Offenders # {})
       /\ out.status = NonNumeric => Range(out.bad_cols) = Offenders

\* C6, as claimed: a column other than the key in both frames at the join step
\* makes aggregate fail with a merge-integrity error
C6_CollisionFails ==
    (JoinReached /\ Collisions # {}) => out.status = "AssertionError"

\* C6, amended: such a column makes aggregate fail (the column-count assertion)
\* only when its name followed by "remove_me" is the name of a column of the
\* input; otherwise aggregate returns a table, in which the column holds the
\* metadata side's value, that of the first input row of the row's key group
C6_CollisionKeepsMetadataSide ==
    (JoinReached /\ Collisions # {}) =>
        IF \E name \in Collisions : isin(name \o <<"remove_me">>, call.data.columns)
        THEN out.status = "AssertionError"
        ELSE /\ out.status = "ok"
             /\ \A r \in 1..Len(out.table.rows) : \A name \in Collisions :
                  OutCell(out.table.rows[r], name)
                    = InCell(InputGroup(OutKey(out.table.rows[r]))[1], name)

\* a returned table with a colliding column whose first value in some group of
\* several rows differs from the group's statistic
C6_Witness ==
    /\ Returned
    /\ \E name \in Collisions : \E k \in InputKeys :
          LET g == InputGroup(k)
          IN  /\ Len(g) > 1
              /\ InCell(g[1], name)
                   # statistic(call.method, [i \in 1..Len(g) |-> InCell(g[i], name)[1]])

----------------------------------------------------------------------------
(* meld/merge_to_db.py : Merger.to_db_agg *)

endswith(s, p) ==
    /\ Len(p) <= Len(s)
    /\ SubSeq(s, Len(s) - Len(p) + 1, Len(s)) = p

get_file_name(select_name) ==
    IF endswith(select_name, <<".csv">>) THEN select_name ELSE select_name \o <<".csv">>

\* A file is [path, tuples, dtypes, rows]: the header tuple of each column (one
\* field per header row of the file), and the data.  pd.read_csv(file, header):
\* with one header row the frame has plain column names, with several it has a
\* MultiIndex; the rows of header are taken up to the file's last header row.
read_csv(file, header) ==
    [multi   |-> Len(header) > 1,
     tuples  |-> [c \in 1..Len(file.tuples) |->
                     [i \in 1..Len(header) |-> file.tuples[c][header[i] + 1]]],
     columns |-> [c \in 1..Len(file.tuples) |-> file.tuples[c][header[1] + 1]],
     dtypes  |-> file.dtypes,
     rows    |-> file.rows]

frame_of(df, cols) == [columns |-> cols, dtypes |-> df.dtypes, rows |-> df.rows]

\* tmp_agg.to_sql(table_name, con=engine, index=False, if_exists="append"): the
\* table is created from the frame when it does not exist; rows are inserted by
\* column name, and a column the table lacks is an error of the database
to_sql(frame, table) ==
    IF table.columns = <<>>
    THEN [status |-> "ok", table |-> [columns |-> frame.columns, rows |-> frame.rows]]
    ELSE IF \E c \in 1..Len(frame.columns) : ~isin(frame.columns[c], table.columns)
    THEN [status |-> "OperationalError", table |-> table]
    ELSE [status |-> "ok",
          table |-> [table EXCEPT !.rows = @ \o
              [r \in 1..Len(frame.rows) |-> [c \in 1..Len(table.columns) |->
                  IF isin(table.columns[c], frame.columns)
                  THEN frame.rows[r][index(frame.columns, table.columns[c])]
                  ELSE NaN]]]]

\* the default of metadata_string in utils.get_featuredata / utils.get_metadata
default_metadata_string == <<"Metadata">>

\* tmp_agg.to_sql(...) once utils.aggregate has returned tmp_agg for tmp_file:
\* the table afterwards and the exception raised, "ok" if none
append_agg(frame, agg, table) ==
    IF agg.status # "ok"
    THEN [status |-> agg.status, table |-> table, tmp_file |-> frame, tmp_agg |-> agg]
    ELSE to_sql(agg.table, table) @@ [tmp_file |-> frame, tmp_agg |-> agg]

\* utils.aggregate(tmp_file, on=by, method=method, ...) in the loop, with the
\* prefix the call site passes on
aggregate_file(frame, a, prefix, groupby_raises) ==
    aggregate(frame, Str(a.by), a.method, default_metadata_string, prefix, groupby_raises)

\* one pass of the loop body of to_db_agg on indv_file: the table afterwards,
\* the exception raised, "ok" if none, and the loop's tmp_file (as handed to
\* utils.aggregate) and tmp_agg
to_db_agg_file(indv_file, a, table, groupby_raises) ==
    LET df == read_csv(indv_file, a.header)
    IN  IF a.header = <<0>>
        THEN append_agg(frame_of(df, df.columns),
                        aggregate_file(frame_of(df, df.columns), a, a.prefix, groupby_raises),
                        table)
        ELSE IF ~df.multi
        THEN [status |-> "HeaderError", table |-> table,
              tmp_file |-> NoTable, tmp_agg |-> NoOut]
             \* **kwargs carries no prefix: aggregate runs with prefix=False
        ELSE append_agg(frame_of(df, collapse_cols(df.tuples, <<"_">>)),
                        aggregate_file(frame_of(df, collapse_cols(df.tuples, <<"_">>)),
                                       a, FALSE, groupby_raises),
                        table)

(* meld/merge_to_db.py : Merger.to_csv_agg *)

\* tmp_files.append(tmp_agg) once utils.aggregate has returned tmp_agg for tmp_file
collect_agg(frame, agg) ==
    [status |-> agg.status, tmp_file |-> frame, tmp_agg |-> agg]

\* one pass of the loop body of to_csv_agg on indv_file: the exception raised,
\* "ok" if none, and the loop's tmp_file (as handed to utils.aggregate) and tmp_agg
to_csv_agg_file(indv_file, a, groupby_raises) ==
    LET df == read_csv(indv_file, a.header)
    IN  IF a.header = <<0>>
        THEN collect_agg(frame_of(df, df.columns),
                         aggregate_file(frame_of(df, df.columns), a, a.prefix, groupby_raises))
        ELSE IF ~df.multi
        THEN [status |-> "HeaderError", tmp_file |-> NoTable, tmp_agg |-> NoOut]
             \* **kwargs carries no prefix: aggregate runs with prefix=False
        ELSE collect_agg(frame_of(df, collapse_cols(df.tuples, <<"_">>)),
                         aggregate_file(frame_of(df, collapse_cols(df.tuples, <<"_">>)),
                                        a, FALSE, groupby_raises))

\* the columns of the frames, each at its first appearance
RECURSIVE all_columns(_)
all_columns(frames) ==
    IF frames = <<>> THEN <<>>
    ELSE LET before == all_columns(SubSeq(frames, 1, Len(frames) - 1))
         IN  before \o SelectSeq(frames[Len(frames)].columns, LAMBDA n : ~isin(n, before))

\* pd.concat(tmp_files, copy=False): the rows of the frames one after the other,
\* aligned by column name
pd_concat(frames) ==
    LET cols == all_columns(frames)
    IN  [columns |-> cols,
         rows |-> concat([f \in 1..Len(frames) |->
                     [r \in 1..Len(frames[f].rows) |-> [c \in 1..Len(cols) |->
                         IF isin(cols[c], frames[f].columns)
                         THEN frames[f].rows[r][index(frames[f].columns, cols[c])]
                         ELSE NaN]]])]

----------------------------------------------------------------------------
(* The state machine of a Merger *)

KeyTuple == << <<"Image">>, <<"ImageNumber">> >>
AreaTuple == << <<"Cell">>, <<"Area">> >>
MetaTuple == << <<"Cell">>, <<"Metadata">> >>

DataName == <<"DATA", ".csv">>

\* the header tuples of a file of the given number of header rows: a file with
\* one header row carries the collapsed names
Headers(depth, tps) ==
    [c \in 1..Len(tps) |-> IF depth = 1 THEN <<join(tps[c], <<"_">>)>> ELSE tps[c]]

\* the files: a good one, one without the key column, one whose feature column
\* is not numeric, each with two rows of one key, for each value v
MergerFiles(depth) ==
    {[path |-> <<"run", "/">> \o DataName,
      tuples |-> Headers(depth, <<KeyTuple, AreaTuple, MetaTuple>>),
      dtypes |-> <<"int64", d, "int64">>,
      rows |-> << << <<1, 1>>, <<v, 1>>, <<1, 1>> >>, << <<1, 1>>, <<4, 1>>, <<v, 1>> >> >>] :
        v \in DeepValues, d \in DTypes}
    \cup
    {[path |-> <<"run", "/">> \o DataName,
      tuples |-> Headers(depth, <<AreaTuple, MetaTuple>>),
      dtypes |-> <<"int64", "int64">>,
      rows |-> << << <<v, 1>>, <<1, 1>> >>, << <<4, 1>>, <<v, 1>> >> >>] : v \in DeepValues}
    \cup
    {[path |-> <<"run", "/", "IMAGE", ".csv">>,
      tuples |-> Headers(depth, <<KeyTuple, AreaTuple, MetaTuple>>),
      dtypes |-> <<"int64", "int64", "int64">>,
      rows |-> << << <<1, 1>>, <<1, 1>>, <<1, 1>> >> >>]}

RECURSIVE SeqsUpTo(_, _)
SeqsUpTo(S, n) ==
    IF n = 0 THEN {<<>>}
    ELSE LET shorter == SeqsUpTo(S, n - 1)
         IN  shorter \cup {Append(q, x) : q \in shorter, x \in S}

\* header arguments that end at the file's last header row
HeaderArgs(depth) == IF depth = 1 THEN {<<0>>} ELSE {<<0, 1>>, <<1>>}

\* a table of an earlier run, or none
\* no table, or the table of an earlier run: of the same columns, or of others
Stores ==
    {NoStore,
     [columns |-> [c \in 1..3 |-> join(<<KeyTuple, AreaTuple, MetaTuple>>[c], <<"_">>)],
      rows |-> << << <<4, 1>>, <<4, 1>>, <<4, 1>> >> >>],
     [columns |-> <<join(KeyTuple, <<"_">>)>>, rows |-> << << <<4, 1>> >> >>]}

InitMerger ==
    /\ pc = "merger"
    /\ ColIdle
    /\ ClsIdle
    /\ call = [data |-> NoTable]
    /\ out = NoOut
    /\ engine = FALSE
    /\ \E depth \in {1, 2} :
        /\ file_paths \in SeqsUpTo(MergerFiles(depth), MaxFiles) \ {<<>>}
        /\ \E h \in HeaderArgs(depth), m \in {"median", "mode"}, p \in BOOLEAN :
            args = [select |-> <<"DATA">>, header |-> h, by |-> join(KeyTuple, <<"_">>),
                    method |-> m, prefix |-> p]
    /\ todo = <<>>
    /\ store \in Stores
    /\ store_before = NoStore
    /\ raised = "none"
    /\ tmp_file = NoTable
    /\ tmp_agg = NoOut
    /\ tmp_files = <<>>
    /\ save_location = NoStore

\* merger.create_db(location)
CreateDb ==
    /\ pc = "merger"
    /\ ~engine
    /\ engine' = TRUE
    /\ UNCHANGED <<pc, colvars, aggvars, clsvars, file_paths, args, todo, store,
                   store_before, raised, tmp_file, tmp_agg, tmp_files, save_location>>

\* merger.to_db_agg(select, header, by, method, prefix) up to its loop:
\* check_database, then the files whose path ends with the file name
ToDbAggCall ==
    /\ pc = "merger"
    /\ store_before' = store
    /\ LET file_name == get_file_name(args.select)
           matching  == SelectSeq(file_paths, LAMBDA f : endswith(f.path, file_name))
       IN  IF ~engine
           THEN pc' = "raised" /\ raised' = "RuntimeError: no database found"
                /\ todo' = todo
           ELSE IF matching = <<>>
           THEN pc' = "raised" /\ raised' = "ValueError: No files found"
                /\ todo' = todo
           ELSE pc' = "to_db_agg" /\ raised' = raised /\ todo' = matching
    /\ UNCHANGED <<colvars, aggvars, clsvars, engine, file_paths, args, store,
                   tmp_file, tmp_agg, tmp_files, save_location>>

\* one pass of the loop of to_db_agg
ToDbAggFile ==
    /\ pc = "to_db_agg"
    /\ todo # <<>>
    /\ \E groupby_raises \in BOOLEAN :
        LET done == to_db_agg_file(Head(todo), args, store, groupby_raises)
        IN  /\ store' = done.table
            /\ IF done.status = "HeaderError"
               THEN UNCHANGED <<tmp_file, tmp_agg>>
               ELSE tmp_file' = done.tmp_file /\ tmp_agg' = done.tmp_agg
            /\ IF done.status = "ok"
               THEN pc' = pc /\ raised' = raised /\ todo' = Tail(todo)
               ELSE pc' = "raised" /\ raised' = done.status /\ todo' = todo
    /\ UNCHANGED <<colvars, aggvars, clsvars, engine, file_paths, args, store_before,
                   tmp_files, save_location>>

\* the loop is over: to_db_agg returns
ToDbAggReturn ==
    /\ pc = "to_db_agg"
    /\ todo = <<>>
    /\ pc' = "returned"
    /\ UNCHANGED <<colvars, aggvars, clsvars, mrgvars>>

\* merger.to_csv_agg(save_location, select, header, by, method, prefix) up to
\* its loop: the files whose path ends with the file name
ToCsvAggCall ==
    /\ pc = "merger"
    /\ store_before' = store
    /\ tmp_files' = <<>>
    /\ LET file_name == get_file_name(args.select)
           matching  == SelectSeq(file_paths, LAMBDA f : endswith(f.path, file_name))
       IN  IF matching = <<>>
           THEN pc' = "raised" /\ raised' = "ValueError: No files found"
                /\ todo' = todo
           ELSE pc' = "to_csv_agg" /\ raised' = raised /\ todo' = matching
    /\ UNCHANGED <<colvars, aggvars, clsvars, engine, file_paths, args, store,
                   tmp_file, tmp_agg, save_location>>

\* one pass of the loop of to_csv_agg
ToCsvAggFile ==
    /\ pc = "to_csv_agg"
    /\ todo # <<>>
    /\ \E groupby_raises \in BOOLEAN :
        LET done == to_csv_agg_file(Head(todo), args, groupby_raises)
        IN  /\ IF done.status = "HeaderError"
               THEN UNCHANGED <<tmp_file, tmp_agg>>
               ELSE tmp_file' = done.tmp_file /\ tmp_agg' = done.tmp_agg
            /\ IF done.status = "ok"
               THEN /\ pc' = pc /\ raised' = raised /\ todo' = Tail(todo)
                    /\ tmp_files' = Append(tmp_files, done.tmp_agg.table)
               ELSE /\ pc' = "raised" /\ raised' = done.status /\ todo' = todo
                    /\ tmp_files' = tmp_files
    /\ UNCHANGED <<colvars, aggvars, clsvars, engine, file_paths, args, store,
                   store_before, save_location>>

\* the loop is over: to_csv_agg concatenates the frames, writes the csv file
\* and returns
ToCsvAggReturn ==
    /\ pc = "to_csv_agg"
    /\ todo = <<>>
    /\ save_location' = pd_concat(tmp_files)
    /\ pc' = "saved"
    /\ UNCHANGED <<colvars, aggvars, clsvars, engine, file_paths, args, todo, store,
                   store_before, raised, tmp_file, tmp_agg, tmp_files>>

NextMerger ==
    \/ CreateDb
    \/ ToDbAggCall
    \/ ToDbAggFile
    \/ ToDbAggReturn
    \/ ToCsvAggCall
    \/ ToCsvAggFile
    \/ ToCsvAggReturn

SpecMerger == InitMerger /\ [][NextMerger]_vars

\* the exceptions that come out of utils.aggregate
AggregationErrors ==
    {"ValueError: not a valid method", "ValueError: not a column in df", NonNumeric,
     "ValueError: vectorize on size 0 inputs",
     "DataError: No numeric types to aggregate", "KeyError", "AssertionError"}

\* C7: when aggregation fails for a file of a to_db_agg call, the call raises
\* and the table holds exactly the rows it held before the call
C7_NoPartialAppend ==
    (pc = "raised" /\ raised \in AggregationErrors) => store = store_before

\* C12: in to_db_agg and to_csv_agg, on the single-header path and on the
\* multi-row-header path alike, what aggregate gives for a file is what it gives
\* for the file's frame (of collapsed columns) under the prefix value of the caller
C12_PrefixDeterminesClassification ==
    tmp_agg.status # "none"
    => tmp_agg \in {aggregate(tmp_file, Str(args.by), args.method,
                              default_metadata_string, args.prefix, g) : g \in BOOLEAN}

====
